---- MODULE Spec2Model ----
(***************************************************************************)
(* Model of the password complexity checker (password_checker.py).         *)
(*                                                                         *)
(* A string is a sequence of Unicode code points.  A call of               *)
(* check_password is a frame that walks through the statements of the      *)
(* method; several callers may have a call in progress on the one          *)
(* PasswordChecker object, whose only field is common_passwords.  In the   *)
(* GUI (password_gui.py) the callers are the threads started by the        *)
(* changes of the password field; they write the widgets of the display.   *)
(***************************************************************************)
EXTENDS Integers, Sequences, FiniteSets, TLC

VARIABLES common_passwords, password, pc, frame, result, field, display

vars == <<common_passwords, password, pc, frame, result, field, display>>

(***************************************************************************)
(* Bounds of the model.                                                    *)
(***************************************************************************)
MaxChunks == 3
NumCallers == 2
MaxScoreArg == 50
MaxEdits == 2

(***************************************************************************)
(* Strings used by the model, as code points.                              *)
(***************************************************************************)
s_password == <<112, 97, 115, 115, 119, 111, 114, 100>>
s_123456 == <<49, 50, 51, 52, 53, 54>>
s_123456789 == <<49, 50, 51, 52, 53, 54, 55, 56, 57>>
s_qwerty == <<113, 119, 101, 114, 116, 121>>
s_abc123 == <<97, 98, 99, 49, 50, 51>>
s_password123 == <<112, 97, 115, 115, 119, 111, 114, 100, 49, 50, 51>>
s_admin == <<97, 100, 109, 105, 110>>
s_letmein == <<108, 101, 116, 109, 101, 105, 110>>
s_welcome == <<119, 101, 108, 99, 111, 109, 101>>
s_monkey == <<109, 111, 110, 107, 101, 121>>

\* "Password": the common word with a capital.
s_Password == <<80, 97, 115, 115, 119, 111, 114, 100>>
\* "123"
s_123 == <<49, 50, 51>>
\* "monKey" written with U+212A KELVIN SIGN, which str.lower() maps to "k".
s_monKelvin == <<109, 111, 110, 8490, 101, 121>>
\* "Q7w!": one character of each of the four classes, no run.
s_Q7w == <<81, 55, 119, 33>>

\* "aaa"
s_aaa == <<97, 97, 97>>

\* PasswordChecker.__init__: the common weak passwords.
InitialCommonPasswords ==
    { s_password, s_123456, s_123456789, s_qwerty, s_abc123,
      s_password123, s_admin, s_letmein, s_welcome, s_monkey }

(***************************************************************************)
(* Inputs: every concatenation of at most MaxChunks chunks.  The chunks    *)
(* are single characters of each kind (lowercase a and b, uppercase A,       *)
(* digit 1, special !, the accented letter U+00E9, the Arabic-Indic digit  *)
(* U+0663) and a few words.  The scores passed to _determine_strength      *)
(* directly are -MaxScoreArg .. MaxScoreArg.                               *)
(***************************************************************************)
Chunks ==
    { <<97>>, <<98>>, <<65>>, <<49>>, <<33>>, <<233>>, <<1635>>,
      s_abc123, s_admin, s_Password, s_123, s_monKelvin, s_Q7w, s_aaa }

RECURSIVE Concats(_)
Concats(n) ==
    IF n = 0 THEN { <<>> }
    ELSE LET shorter == Concats(n - 1)
         IN  shorter \cup { s \o ch : s \in shorter, ch \in Chunks }

Strings == Concats(MaxChunks)

\* A Python value passed as the password argument: a str or None.
Str(s) == [kind |-> "str", chars |-> s]
None == [kind |-> "None", chars |-> <<>>]

Inputs == { Str(s) : s \in Strings } \cup { None }

\* The inputs of the callers that run concurrently.
ConcInputs ==
    { Str(s) : s \in { <<>>, <<97>>, s_abc123, s_admin, s_Password \o s_123,
                       s_aaa, s_Q7w \o s_Q7w \o s_Q7w, <<1635>> } }
    \cup { None }

(***************************************************************************)
(* Python values and built-ins.                                            *)
(***************************************************************************)
\* The outcome of evaluating an expression: a value, or an exception.
Ok(v) == [exc |-> "", value |-> v]
IndexError(default) == [exc |-> "IndexError", value |-> default]
TypeError(default) == [exc |-> "TypeError", value |-> default]

\* "if password is None" instead of "if not password".
truthy_only_none(p) == p.kind = "str"

\* bool(password) as used by "not password": None and "" are falsy.
truthy(p) == p.kind = "str" /\ Len(p.chars) > 0

\* password[i] with a 0-based index; a negative index counts from the end.
getitem(s, i) ==
    IF 0 <= i /\ i < Len(s) THEN Ok(s[i + 1])
    ELSE IF i < 0 /\ 0 - i <= Len(s) THEN Ok(s[Len(s) + i + 1])
    ELSE IndexError(0)

\* str.lower() of one character.  Uppercase ASCII and Latin-1 letters move
\* by 32; U+212A KELVIN SIGN becomes k, U+212B ANGSTROM SIGN becomes U+00E5,
\* U+0130 becomes i followed by U+0307; the other code points of the model
\* (lowercase letters, digits, punctuation, U+00E9, U+0663) have no lowercase
\* mapping and stay.
lower_char(ch) ==
    IF ch \in 65..90 THEN <<ch + 32>>
    ELSE IF ch \in 192..222 /\ ch # 215 THEN <<ch + 32>>
    ELSE IF ch = 8490 THEN <<107>>
    ELSE IF ch = 8491 THEN <<229>>
    ELSE IF ch = 304 THEN <<105, 775>>
    ELSE <<ch>>

RECURSIVE lower(_)
lower(s) == IF s = <<>> THEN <<>> ELSE lower_char(Head(s)) \o lower(Tail(s))

\* The character classes of the four regular expressions.
\* [a-z]
LowerClass == 97..122
\* [A-Z]
UpperClass == 65..90
\* \d on a str pattern: every Unicode decimal digit (category Nd); the model
\* lists the ASCII, Arabic-Indic, Extended Arabic-Indic, NKo, Devanagari and
\* fullwidth digits.
DigitClass ==
    (48..57) \cup (1632..1641) \cup (1776..1785) \cup (1984..1993)
    \cup (2406..2415) \cup (65296..65305)
\* [!@#$%^&*()_+\-=\[\]{}|;:,.<>?]
SpecialClass ==
    { 33, 64, 35, 36, 37, 94, 38, 42, 40, 41, 95, 43, 45, 61, 91, 93, 123,
      125, 124, 59, 58, 44, 46, 60, 62, 63 }

\* bool(re.search(r'[class]', password))
re_search(class, s) == \E i \in 1..Len(s) : s[i] \in class

(***************************************************************************)
(* PasswordStrength                                                        *)
(***************************************************************************)
VERY_WEAK == "Very Weak"
WEAK == "Weak"
FAIR == "Fair"
GOOD == "Good"
STRONG == "Strong"
VERY_STRONG == "Very Strong"

PasswordStrength == { VERY_WEAK, WEAK, FAIR, GOOD, STRONG, VERY_STRONG }

(***************************************************************************)
(* The methods of PasswordChecker that compute without touching the        *)
(* object's state; s is the str's sequence of code points.                 *)
(***************************************************************************)
\* _check_length awarding the whole scale, 50, to a long password.
_check_length_scale(s) ==
    LET length == Len(s)
    IN  IF length < 6 THEN 0
        ELSE IF length < 8 THEN 5
        ELSE IF length < 12 THEN 10
        ELSE 50

\* _check_length with thresholds that exclude their lower bound.
_check_length_exclusive(s) ==
    LET length == Len(s)
    IN  IF length <= 6 THEN 0
        ELSE IF length <= 8 THEN 5
        ELSE IF length <= 12 THEN 10
        ELSE 15

_check_length(s) ==
    LET length == Len(s)
    IN  IF length < 6 THEN 0
        ELSE IF length < 8 THEN 5
        ELSE IF length < 12 THEN 10
        ELSE 15

\* _check_character_variety counting a special character twice as much.
_check_character_variety_special_10(s) ==
    (IF re_search(LowerClass, s) THEN 5 ELSE 0)
    + (IF re_search(UpperClass, s) THEN 5 ELSE 0)
    + (IF re_search(DigitClass, s) THEN 5 ELSE 0)
    + (IF re_search(SpecialClass, s) THEN 10 ELSE 0)

_check_character_variety(s) ==
    (IF re_search(LowerClass, s) THEN 5 ELSE 0)
    + (IF re_search(UpperClass, s) THEN 5 ELSE 0)
    + (IF re_search(DigitClass, s) THEN 5 ELSE 0)
    + (IF re_search(SpecialClass, s) THEN 5 ELSE 0)

\* range(len(password) - 1): one index too many.
range_stop_off_by_one(s) == Len(s) - 1

\* range(len(password) - 2): the indices 0 .. stop-1, none when stop <= 0.
range_stop(s) == Len(s) - 2

\* One iteration of the loop of _has_sequential_chars: the operands are
\* evaluated in the order password[i+1], password[i], password[i+2].
sequential_at(s, i) ==
    LET p1 == getitem(s, i + 1)
        p0 == getitem(s, i)
        p2 == getitem(s, i + 2)
    IN  IF p1.exc # "" THEN IndexError(FALSE)
        ELSE IF p0.exc # "" THEN IndexError(FALSE)
        ELSE IF p1.value # p0.value + 1 THEN Ok(FALSE)
        ELSE IF p2.exc # "" THEN IndexError(FALSE)
        ELSE Ok(p2.value = p0.value + 2)

RECURSIVE sequential_loop(_, _)
sequential_loop(s, i) ==
    IF i >= range_stop(s) THEN Ok(FALSE)
    ELSE LET here == sequential_at(s, i)
         IN  IF here.exc # "" \/ here.value THEN here
             ELSE sequential_loop(s, i + 1)

_has_sequential_chars(s) == sequential_loop(s, 0)

\* One iteration of the loop of _has_repeated_chars: the chained comparison
\* password[i] == password[i+1] == password[i+2].
repeated_at(s, i) ==
    LET p0 == getitem(s, i)
        p1 == getitem(s, i + 1)
        p2 == getitem(s, i + 2)
    IN  IF p0.exc # "" THEN IndexError(FALSE)
        ELSE IF p1.exc # "" THEN IndexError(FALSE)
        ELSE IF p0.value # p1.value THEN Ok(FALSE)
        ELSE IF p2.exc # "" THEN IndexError(FALSE)
        ELSE Ok(p1.value = p2.value)

RECURSIVE repeated_loop(_, _)
repeated_loop(s, i) ==
    IF i >= range_stop(s) THEN Ok(FALSE)
    ELSE LET here == repeated_at(s, i)
         IN  IF here.exc # "" \/ here.value THEN here
             ELSE repeated_loop(s, i + 1)

_has_repeated_chars(s) == repeated_loop(s, 0)

\* _check_patterns looking the password up as typed, without lower().
_check_patterns_case_sensitive(common, s) ==
    LET sequential == _has_sequential_chars(s)
        repeated == _has_repeated_chars(s)
    IN  IF s \in common THEN Ok(0 - 10)
        ELSE IF sequential.exc # "" THEN IndexError(0)
        ELSE IF sequential.value THEN Ok(0 - 5)
        ELSE IF repeated.exc # "" THEN IndexError(0)
        ELSE IF repeated.value THEN Ok(0 - 5)
        ELSE Ok(0)

\* _check_patterns looking for a sequential run before the common passwords.
_check_patterns_sequential_first(common, s) ==
    LET password_lower == lower(s)
        sequential == _has_sequential_chars(s)
        repeated == _has_repeated_chars(s)
    IN  IF sequential.exc # "" THEN IndexError(0)
        ELSE IF sequential.value THEN Ok(0 - 5)
        ELSE IF password_lower \in common THEN Ok(0 - 10)
        ELSE IF repeated.exc # "" THEN IndexError(0)
        ELSE IF repeated.value THEN Ok(0 - 5)
        ELSE Ok(0)

\* _check_patterns adding the penalties of all the checks that match.
_check_patterns_additive(common, s) ==
    LET password_lower == lower(s)
        sequential == _has_sequential_chars(s)
        repeated == _has_repeated_chars(s)
    IN  IF password_lower \in common THEN Ok(0 - 10)
        ELSE IF sequential.exc # "" \/ repeated.exc # "" THEN IndexError(0)
        ELSE Ok((IF sequential.value THEN 0 - 5 ELSE 0)
                + (IF repeated.value THEN 0 - 5 ELSE 0))

\* _check_patterns taking 5, as for the other patterns, for a common password.
_check_patterns_common_5(common, s) ==
    LET password_lower == lower(s)
        sequential == _has_sequential_chars(s)
        repeated == _has_repeated_chars(s)
    IN  IF password_lower \in common THEN Ok(0 - 5)
        ELSE IF sequential.exc # "" THEN IndexError(0)
        ELSE IF sequential.value THEN Ok(0 - 5)
        ELSE IF repeated.exc # "" THEN IndexError(0)
        ELSE IF repeated.value THEN Ok(0 - 5)
        ELSE Ok(0)

\* _check_patterns reads self.common_passwords, passed here as common.
_check_patterns(common, s) ==
    LET password_lower == lower(s)
        sequential == _has_sequential_chars(s)
        repeated == _has_repeated_chars(s)
    IN  IF password_lower \in common THEN Ok(0 - 10)
        ELSE IF sequential.exc # "" THEN IndexError(0)
        ELSE IF sequential.value THEN Ok(0 - 5)
        ELSE IF repeated.exc # "" THEN IndexError(0)
        ELSE IF repeated.value THEN Ok(0 - 5)
        ELSE Ok(0)

\* _determine_strength comparing with <= instead of <.
_determine_strength_inclusive(score) ==
    IF score <= 5 THEN VERY_WEAK
    ELSE IF score <= 10 THEN WEAK
    ELSE IF score <= 20 THEN FAIR
    ELSE IF score <= 30 THEN GOOD
    ELSE IF score <= 40 THEN STRONG
    ELSE VERY_STRONG

_determine_strength(score) ==
    IF score < 5 THEN VERY_WEAK
    ELSE IF score < 10 THEN WEAK
    ELSE IF score < 20 THEN FAIR
    ELSE IF score < 30 THEN GOOD
    ELSE IF score < 40 THEN STRONG
    ELSE VERY_STRONG

\* A feedback message: its text, with the number an f-string puts into it
\* (n = 0 for a message without a number).
Msg(text, n) == [text |-> text, n |-> n]

MsgEmpty == Msg("Password cannot be empty", 0)
MsgTooShort(n) == Msg("Password is too short ({length} characters). Use at least 8 characters.", n)
MsgLonger(n) == Msg("Consider using a longer password ({length} characters). 12+ characters recommended.", n)
MsgGoodLength(n) == Msg("Good password length ({length} characters).", n)
MsgAddLower == Msg("Add lowercase letters (a-z)", 0)
MsgAddUpper == Msg("Add uppercase letters (A-Z)", 0)
MsgAddDigits == Msg("Add numbers (0-9)", 0)
MsgAddSpecial == Msg("Add special characters (!@#$%^&*)", 0)
MsgSequential == Msg("Avoid sequential characters (abc, 123)", 0)
MsgRepeated == Msg("Avoid repeated characters (aaa, 111)", 0)
MsgTooWeak == Msg("Password is too weak. Consider using a password manager.", 0)
MsgAcceptable == Msg("Password is acceptable but could be stronger.", 0)
MsgGreat == Msg("Great! This is a strong password.", 0)

\* feedback.append(m) when cond holds.
append_if(cond, m) == IF cond THEN <<m>> ELSE <<>>

_generate_feedback(s, strength) ==
    LET length == Len(s)
        has_lower == re_search(LowerClass, s)
        has_upper == re_search(UpperClass, s)
        has_digits == re_search(DigitClass, s)
        has_special == re_search(SpecialClass, s)
        sequential == _has_sequential_chars(s)
        repeated == _has_repeated_chars(s)
        feedback ==
            << IF length < 8 THEN MsgTooShort(length)
               ELSE IF length < 12 THEN MsgLonger(length)
               ELSE MsgGoodLength(length) >>
            \o append_if(~has_lower, MsgAddLower)
            \o append_if(~has_upper, MsgAddUpper)
            \o append_if(~has_digits, MsgAddDigits)
            \o append_if(~has_special, MsgAddSpecial)
            \o append_if(sequential.value, MsgSequential)
            \o append_if(repeated.value, MsgRepeated)
            \o ( IF strength \in { VERY_WEAK, WEAK } THEN <<MsgTooWeak>>
                 ELSE IF strength = FAIR THEN <<MsgAcceptable>>
                 ELSE IF strength \in { GOOD, STRONG, VERY_STRONG } THEN <<MsgGreat>>
                 ELSE <<>> )
    IN  IF sequential.exc # "" \/ repeated.exc # "" THEN IndexError(<<>>)
        ELSE Ok(feedback)

\* _create_result leaving Good out of the strong strengths.
_create_result_without_good(strength, score, feedback) ==
    [ strength |-> strength,
      score |-> score,
      feedback |-> feedback,
      is_strong |-> strength \in { STRONG, VERY_STRONG } ]

_create_result(strength, score, feedback) ==
    [ strength |-> strength,
      score |-> score,
      feedback |-> feedback,
      is_strong |-> strength \in { GOOD, STRONG, VERY_STRONG } ]

\* check_password run from start to end by a caller that is alone, on a
\* checker whose common_passwords is common.
check_password(common, p) ==
    IF ~truthy(p) THEN _create_result(VERY_WEAK, 0, <<MsgEmpty>>)
    ELSE LET length_score == _check_length(p.chars)
             char_variety_score == _check_character_variety(p.chars)
             pattern_score == _check_patterns(common, p.chars).value
             total_score == length_score + char_variety_score + pattern_score
             strength == _determine_strength(total_score)
             feedback == _generate_feedback(p.chars, strength).value
         IN  _create_result(strength, total_score, feedback)

(***************************************************************************)
(* State.  common_passwords is the field of the one PasswordChecker.  Each *)
(* caller c has the argument password[c] of its current call, the position *)
(* pc[c] in check_password, the local variables frame[c] assigned so far   *)
(* and the value result[c] the call returned.                              *)
(***************************************************************************)
NoResult == <<>>
EmptyFrame == <<>>

\* The widgets real_time_check writes: the strength label, the score label
\* (<<n>> stands for the text "Score: n/50", <<>> for the empty text), the
\* value of the progress bar and the items of the feedback box.
Display(strength_text, score_text, progress, feedback_text) ==
    [ strength_text |-> strength_text,
      score_text |-> score_text,
      strength_progress |-> progress,
      feedback_text |-> feedback_text ]

\* The display as create_widgets builds it and as clear_display leaves it.
ClearedDisplay == Display("Enter a password to check", <<>>, 0, <<>>)

\* The state of the GUI: the password field and the display.
gui == <<field, display>>

Callers == DOMAIN pc

\* frame[c] with the local variable name bound to v.
bind(f, name, v) == (name :> v) @@ f

InitCallers(ids) ==
    /\ common_passwords = InitialCommonPasswords
    /\ password = [c \in ids |-> None]
    /\ pc = [c \in ids |-> "idle"]
    /\ frame = [c \in ids |-> EmptyFrame]
    /\ result = [c \in ids |-> NoResult]
    /\ field = <<>>
    /\ display = ClearedDisplay

\* main(): one caller, the command-line loop.
Init == InitCallers({1})

\* Several callers sharing the checker.
InitConc == InitCallers(1..NumCallers)

\* The caller calls checker.check_password(p).
Call(c, args) ==
    /\ pc[c] = "idle"
    /\ UNCHANGED gui
    /\ \E p \in args : password' = [password EXCEPT ![c] = p]
    /\ pc' = [pc EXCEPT ![c] = "line45"]
    /\ frame' = [frame EXCEPT ![c] = EmptyFrame]
    /\ result' = [result EXCEPT ![c] = NoResult]
    /\ UNCHANGED common_passwords

\* An exception leaves check_password; nothing catches it.
raise(c) ==
    /\ pc' = [pc EXCEPT ![c] = "raised"]
    /\ UNCHANGED <<common_passwords, password, frame, result>>

\* if not password: return self._create_result(VERY_WEAK, 0, [...])
CheckEmpty(c) ==
    /\ pc[c] = "line45"
    /\ UNCHANGED gui
    /\ IF ~truthy(password[c])
       THEN /\ result' = [result EXCEPT ![c] =
                            _create_result(VERY_WEAK, 0, <<MsgEmpty>>)]
            /\ pc' = [pc EXCEPT ![c] = "done"]
       ELSE /\ pc' = [pc EXCEPT ![c] = "line49"]
            /\ UNCHANGED result
    /\ UNCHANGED <<common_passwords, password, frame>>

\* length_score = self._check_length(password); len(None) is a TypeError.
CheckLength(c) ==
    /\ pc[c] = "line49"
    /\ UNCHANGED gui
    /\ IF password[c].kind # "str" THEN raise(c)
       ELSE /\ frame' = [frame EXCEPT ![c] =
                           bind(@, "length_score", _check_length(password[c].chars))]
            /\ pc' = [pc EXCEPT ![c] = "line50"]
            /\ UNCHANGED <<common_passwords, password, result>>

\* char_variety_score = self._check_character_variety(password)
CheckVariety(c) ==
    /\ pc[c] = "line50"
    /\ UNCHANGED gui
    /\ frame' = [frame EXCEPT ![c] =
                    bind(@, "char_variety_score",
                         _check_character_variety(password[c].chars))]
    /\ pc' = [pc EXCEPT ![c] = "line51"]
    /\ UNCHANGED <<common_passwords, password, result>>

\* _check_patterns remembering a password it penalised as a common one:
\* self.common_passwords.add(password_lower).
CheckPatternsLearning(c) ==
    /\ pc[c] = "line51"
    /\ UNCHANGED gui
    /\ LET r == _check_patterns(common_passwords, password[c].chars)
       IN  IF r.exc # "" THEN raise(c)
           ELSE /\ frame' = [frame EXCEPT ![c] = bind(@, "pattern_score", r.value)]
                /\ pc' = [pc EXCEPT ![c] = "line54"]
                /\ common_passwords' =
                     IF r.value < 0
                     THEN common_passwords \cup { lower(password[c].chars) }
                     ELSE common_passwords
                /\ UNCHANGED <<password, result>>

\* pattern_score = self._check_patterns(password)
CheckPatterns(c) ==
    /\ pc[c] = "line51"
    /\ UNCHANGED gui
    /\ LET r == _check_patterns(common_passwords, password[c].chars)
       IN  IF r.exc # "" THEN raise(c)
           ELSE /\ frame' = [frame EXCEPT ![c] = bind(@, "pattern_score", r.value)]
                /\ pc' = [pc EXCEPT ![c] = "line54"]
                /\ UNCHANGED <<common_passwords, password, result>>

\* total_score = length_score + char_variety_score + pattern_score
Total(c) ==
    /\ pc[c] = "line54"
    /\ UNCHANGED gui
    /\ frame' = [frame EXCEPT ![c] =
                    bind(@, "total_score",
                         @.length_score + @.char_variety_score + @.pattern_score)]
    /\ pc' = [pc EXCEPT ![c] = "line57"]
    /\ UNCHANGED <<common_passwords, password, result>>

\* strength = self._determine_strength(total_score)
DetermineStrength(c) ==
    /\ pc[c] = "line57"
    /\ UNCHANGED gui
    /\ frame' = [frame EXCEPT ![c] =
                    bind(@, "strength", _determine_strength(@.total_score))]
    /\ pc' = [pc EXCEPT ![c] = "line60"]
    /\ UNCHANGED <<common_passwords, password, result>>

\* feedback = self._generate_feedback(password, strength)
GenerateFeedback(c) ==
    /\ pc[c] = "line60"
    /\ UNCHANGED gui
    /\ LET r == _generate_feedback(password[c].chars, frame[c].strength)
       IN  IF r.exc # "" THEN raise(c)
           ELSE /\ frame' = [frame EXCEPT ![c] = bind(@, "feedback", r.value)]
                /\ pc' = [pc EXCEPT ![c] = "line62"]
                /\ UNCHANGED <<common_passwords, password, result>>

\* return self._create_result(strength, total_score, feedback)
Return(c) ==
    /\ pc[c] = "line62"
    /\ UNCHANGED gui
    /\ result' = [result EXCEPT ![c] =
                     _create_result(frame[c].strength, frame[c].total_score,
                                    frame[c].feedback)]
    /\ pc' = [pc EXCEPT ![c] = "done"]
    /\ UNCHANGED <<common_passwords, password, frame>>

\* The caller has used the returned result (main() prints it) and goes back
\* to where it takes its next input.
Resume(c) ==
    /\ pc[c] = "done"
    /\ UNCHANGED gui
    /\ password' = [password EXCEPT ![c] = None]
    /\ pc' = [pc EXCEPT ![c] = "idle"]
    /\ frame' = [frame EXCEPT ![c] = EmptyFrame]
    /\ result' = [result EXCEPT ![c] = NoResult]
    /\ UNCHANGED common_passwords

\* The caller calls checker._determine_strength(score) directly.
CallDetermineStrength(c) ==
    /\ pc[c] = "idle"
    /\ UNCHANGED gui
    /\ \E score \in (0 - MaxScoreArg)..MaxScoreArg :
          frame' = [frame EXCEPT ![c] = bind(EmptyFrame, "score", score)]
    /\ pc' = [pc EXCEPT ![c] = "line136"]
    /\ UNCHANGED <<common_passwords, password, result>>

ReturnDetermineStrength(c) ==
    /\ pc[c] = "line136"
    /\ UNCHANGED gui
    /\ result' = [result EXCEPT ![c] = _determine_strength(frame[c].score)]
    /\ pc' = [pc EXCEPT ![c] = "tier_done"]
    /\ UNCHANGED <<common_passwords, password, frame>>

\* One statement of check_password.
Step(c) ==
    \/ CheckEmpty(c)
    \/ CheckLength(c)
    \/ CheckVariety(c)
    \/ CheckPatterns(c)
    \/ Total(c)
    \/ DetermineStrength(c)
    \/ GenerateFeedback(c)
    \/ Return(c)

Next ==
    \E c \in Callers :
        \/ Call(c, Inputs)
        \/ Step(c)
        \/ Resume(c)
        \/ CallDetermineStrength(c)
        \/ ReturnDetermineStrength(c)

Spec == Init /\ [][Next]_vars

\* The interpreter runs a started call on: no statement of check_password
\* waits for anything.
SpecLive == Spec /\ WF_vars(Step(1))

NextConc == \E c \in Callers : Call(c, ConcInputs) \/ Step(c) \/ Resume(c)

SpecConc == InitConc /\ [][NextConc]_vars

(***************************************************************************)
(* PasswordCheckerGUI.  A write of password_var runs on_password_change,   *)
(* which starts a thread on real_time_check; thread t is the t-th one      *)
(* started.  Each call a thread makes on a widget is one step.             *)
(***************************************************************************)
\* The keys the user types: a and A.
GuiKeys == { 97, 65 }

InitGui ==
    /\ common_passwords = InitialCommonPasswords
    /\ password = [t \in 1..MaxEdits |-> None]
    /\ pc = [t \in 1..MaxEdits |-> "unstarted"]
    /\ frame = [t \in 1..MaxEdits |-> EmptyFrame]
    /\ result = [t \in 1..MaxEdits |-> NoResult]
    /\ field = <<>>
    /\ display = ClearedDisplay

\* threading.Thread(target=self.real_time_check, daemon=True).start()
on_password_change(t) ==
    /\ pc[t] = "unstarted"
    /\ \A u \in Callers : u < t => pc[u] # "unstarted"
    /\ pc' = [pc EXCEPT ![t] = "line156"]

\* The user types a key into the entry: password_var is written.
TypeKey(t) ==
    /\ on_password_change(t)
    /\ \E ch \in GuiKeys : field' = Append(field, ch)
    /\ UNCHANGED <<common_passwords, password, frame, result, display>>

\* The user deletes the last character of the entry.
Backspace(t) ==
    /\ on_password_change(t)
    /\ field # <<>>
    /\ field' = SubSeq(field, 1, Len(field) - 1)
    /\ UNCHANGED <<common_passwords, password, frame, result, display>>

\* The Clear button: self.password_var.set(""); self.clear_display()
clear_all(t) ==
    /\ on_password_change(t)
    /\ field' = <<>>
    /\ display' = ClearedDisplay
    /\ UNCHANGED <<common_passwords, password, frame, result>>

\* real_time_check: password = self.password_var.get()
ReadField(t) ==
    /\ pc[t] = "line156"
    /\ password' = [password EXCEPT ![t] = Str(field)]
    /\ pc' = [pc EXCEPT ![t] = "line158"]
    /\ UNCHANGED <<common_passwords, frame, result, field, display>>

\* if len(password) > 0: the thread calls self.checker.check_password, whose
\* statements are the steps line45 .. line62; else it calls clear_display.
Branch(t) ==
    /\ pc[t] = "line158"
    /\ pc' = [pc EXCEPT ![t] =
                IF Len(password[t].chars) > 0 THEN "line45" ELSE "line197"]
    /\ UNCHANGED <<common_passwords, password, frame, result, field, display>>

\* update_display: self.strength_text.config(text=strength), called with the
\* result check_password returned.
UpdateStrengthText(t) ==
    /\ pc[t] = "done"
    /\ display' = [display EXCEPT !.strength_text = result[t].strength]
    /\ frame' = [frame EXCEPT ![t] = EmptyFrame]
    /\ pc' = [pc EXCEPT ![t] = "line185"]
    /\ UNCHANGED <<common_passwords, password, result, field>>

\* self.score_text.config(text=f"Score: {score}/50")
UpdateScoreText(t) ==
    /\ pc[t] = "line185"
    /\ display' = [display EXCEPT !.score_text = <<result[t].score>>]
    /\ pc' = [pc EXCEPT ![t] = "line188"]
    /\ UNCHANGED <<common_passwords, password, frame, result, field>>

\* self.strength_progress['value'] = score
UpdateProgress(t) ==
    /\ pc[t] = "line188"
    /\ display' = [display EXCEPT !.strength_progress = result[t].score]
    /\ pc' = [pc EXCEPT ![t] = "line191"]
    /\ UNCHANGED <<common_passwords, password, frame, result, field>>

\* self.feedback_text.delete(1.0, tk.END)
DeleteFeedback(t) ==
    /\ pc[t] = "line191"
    /\ display' = [display EXCEPT !.feedback_text = <<>>]
    /\ frame' = [frame EXCEPT ![t] = bind(EmptyFrame, "item", 1)]
    /\ pc' = [pc EXCEPT ![t] = "line193"]
    /\ UNCHANGED <<common_passwords, password, result, field>>

\* The line the loop inserts for a feedback item: a bullet and the item.
Bullet(m) == [bullet |-> TRUE, text |-> m.text, n |-> m.n]

\* The thread has run real_time_check to its end.
finish(t) ==
    /\ pc' = [pc EXCEPT ![t] = "finished"]
    /\ password' = [password EXCEPT ![t] = None]
    /\ frame' = [frame EXCEPT ![t] = EmptyFrame]
    /\ result' = [result EXCEPT ![t] = NoResult]

\* for item in result['feedback']: self.feedback_text.insert(tk.END, ...)
InsertFeedback(t) ==
    /\ pc[t] = "line193"
    /\ display' = [display EXCEPT !.feedback_text =
                      Append(@, Bullet(result[t].feedback[frame[t].item]))]
    /\ IF frame[t].item < Len(result[t].feedback)
       THEN /\ frame' = [frame EXCEPT ![t] = bind(EmptyFrame, "item", @.item + 1)]
            /\ UNCHANGED <<pc, password, result>>
       ELSE finish(t)
    /\ UNCHANGED <<common_passwords, field>>

\* clear_display: self.strength_text.config(text="Enter a password to check")
ClearStrengthText(t) ==
    /\ pc[t] = "line197"
    /\ display' = [display EXCEPT !.strength_text = ClearedDisplay.strength_text]
    /\ pc' = [pc EXCEPT ![t] = "line198"]
    /\ UNCHANGED <<common_passwords, password, frame, result, field>>

\* self.score_text.config(text="")
ClearScoreText(t) ==
    /\ pc[t] = "line198"
    /\ display' = [display EXCEPT !.score_text = <<>>]
    /\ pc' = [pc EXCEPT ![t] = "line199"]
    /\ UNCHANGED <<common_passwords, password, frame, result, field>>

\* self.strength_progress['value'] = 0
ClearProgress(t) ==
    /\ pc[t] = "line199"
    /\ display' = [display EXCEPT !.strength_progress = 0]
    /\ pc' = [pc EXCEPT ![t] = "line200"]
    /\ UNCHANGED <<common_passwords, password, frame, result, field>>

\* self.feedback_text.delete(1.0, tk.END)
ClearFeedback(t) ==
    /\ pc[t] = "line200"
    /\ display' = [display EXCEPT !.feedback_text = <<>>]
    /\ finish(t)
    /\ UNCHANGED <<common_passwords, field>>

\* One step of a thread in real_time_check, check_password included.
ThreadStep(t) ==
    \/ ReadField(t)
    \/ Branch(t)
    \/ Step(t)
    \/ UpdateStrengthText(t)
    \/ UpdateScoreText(t)
    \/ UpdateProgress(t)
    \/ DeleteFeedback(t)
    \/ InsertFeedback(t)
    \/ ClearStrengthText(t)
    \/ ClearScoreText(t)
    \/ ClearProgress(t)
    \/ ClearFeedback(t)

NextGui ==
    \E t \in Callers :
        \/ TypeKey(t)
        \/ Backspace(t)
        \/ clear_all(t)
        \/ ThreadStep(t)

SpecGui == InitGui /\ [][NextGui]_vars

(***************************************************************************)
(* Properties.                                                             *)
(***************************************************************************)
\* A call of check_password by c has returned.
Returned(c) == pc[c] = "done"

\* C1: the score returned by check_password is an integer of the closed
\* range -10 .. 50, for every input.
C1_ScoreInRange ==
    \A c \in Callers : Returned(c) => result[c].score \in (0 - 10)..50

\* A long password with all four classes and no pattern got the highest
\* score there is.
C1_Witness ==
    \E c \in Callers :
        /\ Returned(c)
        /\ Len(password[c].chars) >= 12
        /\ result[c].score = 35

ResultFields == { "strength", "score", "feedback", "is_strong" }

\* C2: check_password is total over strings: no call ends in an exception,
\* every started call returns, and what it returns has the four fields
\* strength, score, feedback and is_strong.
C2_Total ==
    /\ [](\A c \in Callers :
            /\ pc[c] # "raised"
            /\ Returned(c) =>
                 /\ DOMAIN result[c] = ResultFields
                 /\ result[c].strength \in PasswordStrength
                 /\ result[c].score \in Int
                 /\ result[c].is_strong \in BOOLEAN)
    /\ (pc[1] = "line45" ~> pc[1] = "done")

\* A call on a string of 12 or more characters with a code point outside
\* ASCII has returned.
C2_Witness ==
    \E c \in Callers :
        /\ Returned(c)
        /\ Len(password[c].chars) >= 12
        /\ \E i \in 1..Len(password[c].chars) : password[c].chars[i] > 127

\* C3: for the empty string and for None, check_password returns at once
\* score 0, Very Weak, is_strong false and the feedback list
\* ["Password cannot be empty"]; no sub-score and no feedback check has run,
\* so no local variable was assigned.
C3_EmptyInput ==
    \A c \in Callers :
        (Returned(c) /\ (password[c] = None \/ password[c] = Str(<<>>))) =>
            /\ result[c] = [ strength |-> VERY_WEAK, score |-> 0,
                             feedback |-> <<MsgEmpty>>, is_strong |-> FALSE ]
            /\ frame[c] = EmptyFrame

\* The call on the empty string has returned.
C3_Witness == \E c \in Callers : Returned(c) /\ password[c] = Str(<<>>)

\* C4: the result of check_password depends on its argument alone.  No call
\* changes common_passwords; whatever the interleaving of the callers, a
\* call returns what check_password returns on that input when run alone;
\* hence two calls on the same input return identical results.
C4_DependsOnInputOnly ==
    /\ common_passwords = InitialCommonPasswords
    /\ \A c \in Callers :
          Returned(c) =>
              result[c] = check_password(InitialCommonPasswords, password[c])
    /\ \A c, d \in Callers :
          (Returned(c) /\ Returned(d) /\ password[c] = password[d]) =>
              result[c] = result[d]

\* Two callers have both returned from a call on the same penalised
\* password.
C4_Witness ==
    \E c, d \in Callers :
        /\ c # d
        /\ Returned(c) /\ Returned(d)
        /\ password[c] = password[d]
        /\ truthy(password[c])
        /\ frame[c].pattern_score < 0

\* The password matches a member of the common-password set, whatever the
\* case of its letters.
IsCommon(s) == lower(s) \in InitialCommonPasswords

\* C5 as stated: every password that matches a common password
\* case-insensitively is returned Very Weak with a score below 5.
C5_CommonIsVeryWeak ==
    \A c \in Callers :
        (Returned(c) /\ truthy(password[c]) /\ IsCommon(password[c].chars)) =>
            /\ result[c].strength = VERY_WEAK
            /\ result[c].score < 5

\* C5 amended: a password that matches a common password case-insensitively
\* has the penalty of 10 applied, its score is length score plus variety
\* score minus 10 and at most 15, and its strength is Very Weak, Weak or
\* Fair; it is Very Weak with a score below 5 exactly when the length and
\* variety scores sum to less than 15.
C5_CommonIsPenalised ==
    \A c \in Callers :
        (Returned(c) /\ truthy(password[c]) /\ IsCommon(password[c].chars)) =>
            /\ frame[c].pattern_score = 0 - 10
            /\ result[c].score =
                 frame[c].length_score + frame[c].char_variety_score - 10
            /\ result[c].score <= 15
            /\ result[c].strength \in { VERY_WEAK, WEAK, FAIR }
            /\ (result[c].strength = VERY_WEAK /\ result[c].score < 5)
                 <=> (frame[c].length_score + frame[c].char_variety_score < 15)

\* "Password123", a common password written with a capital, was returned
\* Fair with score 15.
C5_Witness ==
    \E c \in Callers :
        /\ Returned(c)
        /\ password[c] = Str(s_Password \o s_123)
        /\ result[c].score = 15
        /\ result[c].strength = FAIR

\* The character classes of s, as the regular expressions find them.
ClassesOf(s) ==
    { k \in { "lower", "upper", "digit", "special" } :
        \/ k = "lower" /\ re_search(LowerClass, s)
        \/ k = "upper" /\ re_search(UpperClass, s)
        \/ k = "digit" /\ re_search(DigitClass, s)
        \/ k = "special" /\ re_search(SpecialClass, s) }

\* Three consecutive characters with code points x, x+1, x+2.
HasSequentialRun(s) ==
    \E i \in 1..(Len(s) - 2) : s[i + 1] = s[i] + 1 /\ s[i + 2] = s[i] + 2

\* Three consecutive identical characters.
HasRepeatedRun(s) ==
    \E i \in 1..(Len(s) - 2) : s[i + 1] = s[i] /\ s[i + 2] = s[i]

\* The strings abc123 is compared with: same length, same classes, no
\* sequential run, no repeated run, not a common password.
PlainLike(s) ==
    { q \in Strings :
        /\ Len(q) = Len(s)
        /\ ClassesOf(q) = ClassesOf(s)
        /\ ~HasSequentialRun(q)
        /\ ~HasRepeatedRun(q)
        /\ ~IsCommon(q) }

\* C6 as stated: the score of "abc123" is exactly 5 lower than the score of
\* a password of the same length and classes without any pattern.
C6_Abc123FiveLower ==
    \A c \in Callers :
        (Returned(c) /\ password[c] = Str(s_abc123)) =>
            \A q \in PlainLike(s_abc123) :
                result[c].score =
                    check_password(InitialCommonPasswords, Str(q)).score - 5

\* C6 amended: "abc123" is a member of the common-password set, so it has
\* the common-password penalty applied and not the sequential one: its score
\* is exactly 10 lower than the score of a password of the same length and
\* classes without any pattern.
C6_Abc123TenLower ==
    \A c \in Callers :
        (Returned(c) /\ password[c] = Str(s_abc123)) =>
            /\ frame[c].pattern_score = 0 - 10
            /\ \A q \in PlainLike(s_abc123) :
                  result[c].score =
                      check_password(InitialCommonPasswords, Str(q)).score - 10

\* The call on "abc123" has returned, and "admin1" is a password to compare
\* it with.
C6_Witness ==
    \E c \in Callers :
        /\ Returned(c)
        /\ password[c] = Str(s_abc123)
        /\ (s_admin \o <<49>>) \in PlainLike(s_abc123)

\* The digits 0-9 of ASCII.
AsciiDigits == 48..57

\* The number of the four classes present in s when the digit class is
\* ASCII 0-9 only.
AsciiClassCount(s) ==
    (IF \E i \in 1..Len(s) : s[i] \in 97..122 THEN 1 ELSE 0)
    + (IF \E i \in 1..Len(s) : s[i] \in 65..90 THEN 1 ELSE 0)
    + (IF \E i \in 1..Len(s) : s[i] \in AsciiDigits THEN 1 ELSE 0)
    + (IF \E i \in 1..Len(s) : s[i] \in SpecialClass THEN 1 ELSE 0)

\* C7: the character-variety score is 5 times the number of classes present
\* among lowercase a-z, uppercase A-Z, digit 0-9 and the special set, each
\* class counted once; a character outside these ASCII ranges and that set,
\* a non-ASCII digit included, counts toward no class.
C7_VarietyIsAsciiClasses ==
    \A c \in Callers :
        "char_variety_score" \in DOMAIN frame[c] =>
            frame[c].char_variety_score = 5 * AsciiClassCount(password[c].chars)

\* The tier the table of C8 gives a score.
TierOf(score) ==
    CASE score < 5 -> "Very Weak"
      [] score \in 5..9 -> "Weak"
      [] score \in 10..19 -> "Fair"
      [] score \in 20..29 -> "Good"
      [] score \in 30..39 -> "Strong"
      [] score >= 40 -> "Very Strong"

\* C8: the strength is a function of the total score alone: below 5 Very
\* Weak, 5..9 Weak, 10..19 Fair, 20..29 Good, 30..39 Strong, 40 and above
\* Very Strong, both for _determine_strength called with any score and for
\* the strength check_password returns; the returned score is the sum of the
\* three sub-scores, a negative sum is returned as it is and is Very Weak.
C8_TierByScore ==
    \A c \in Callers :
        /\ pc[c] = "tier_done" => result[c] = TierOf(frame[c].score)
        /\ (Returned(c) /\ truthy(password[c])) =>
              /\ result[c].strength = TierOf(result[c].score)
              /\ result[c].score =
                   frame[c].length_score + frame[c].char_variety_score
                   + frame[c].pattern_score
              /\ result[c].score < 0 => result[c].strength = "Very Weak"

\* check_password has returned a negative score, with Very Weak.
C8_Witness ==
    \E c \in Callers :
        /\ Returned(c)
        /\ result[c].score < 0
        /\ result[c].strength = "Very Weak"

\* C9: in every returned result, the one for an empty input included,
\* is_strong is true iff the strength is Good, Strong or Very Strong, and
\* iff the score is at least 20.
C9_IsStrongIffGoodOrBetter ==
    \A c \in Callers :
        Returned(c) =>
            /\ result[c].is_strong
                 <=> result[c].strength \in { "Good", "Strong", "Very Strong" }
            /\ result[c].is_strong <=> result[c].score >= 20

\* A result with strength Good has is_strong true.
C9_Witness ==
    \E c \in Callers :
        /\ Returned(c)
        /\ result[c].strength = "Good"
        /\ result[c].is_strong

\* C10: the pattern sub-score is -10 if the lowercased password is in the
\* common set; otherwise -5 if it has a sequential run; otherwise -5 if it
\* has a repeated run; otherwise 0.  A password with both runs loses 5 once.
C10_PatternScore ==
    \A c \in Callers :
        "pattern_score" \in DOMAIN frame[c] =>
            LET s == password[c].chars
            IN  /\ frame[c].pattern_score \in { 0 - 10, 0 - 5, 0 }
                /\ frame[c].pattern_score =
                     IF lower(s) \in common_passwords THEN 0 - 10
                     ELSE IF HasSequentialRun(s) THEN 0 - 5
                     ELSE IF HasRepeatedRun(s) THEN 0 - 5
                     ELSE 0

\* A password with a sequential run and a repeated run that is not a common
\* password has the pattern sub-score -5.
C10_Witness ==
    \E c \in Callers :
        /\ "pattern_score" \in DOMAIN frame[c]
        /\ HasSequentialRun(password[c].chars)
        /\ HasRepeatedRun(password[c].chars)
        /\ ~IsCommon(password[c].chars)
        /\ frame[c].pattern_score = 0 - 5

\* The length sub-score the table of C11 gives a character count.
LengthScoreOf(n) ==
    CASE n < 6 -> 0
      [] n \in 6..7 -> 5
      [] n \in 8..11 -> 10
      [] n >= 12 -> 15

\* C11: the length sub-score is 0 below 6 characters, 5 for 6..7, 10 for
\* 8..11 and 15 from 12 on; hence no shorter password (here: no prefix of the
\* password) has a greater length sub-score.
C11_LengthScore ==
    \A c \in Callers :
        "length_score" \in DOMAIN frame[c] =>
            LET s == password[c].chars
            IN  /\ frame[c].length_score = LengthScoreOf(Len(s))
                /\ \A k \in 0..Len(s) :
                      _check_length(SubSeq(s, 1, k)) <= frame[c].length_score

\* A password of exactly 6 characters got the length sub-score 5.
C11_Witness ==
    \E c \in Callers :
        /\ "length_score" \in DOMAIN frame[c]
        /\ Len(password[c].chars) = 6
        /\ frame[c].length_score = 5

\* The feedback list C12 describes for the password s and the strength
\* tier, when digits is the set of characters that count as a digit.
FeedbackOf(s, tier, digits) ==
    LET n == Len(s)
        lengthMsg ==
            IF n < 8 THEN MsgTooShort(n)
            ELSE IF n \in 8..11 THEN MsgLonger(n)
            ELSE MsgGoodLength(n)
        closing ==
            IF tier \in { "Very Weak", "Weak" } THEN MsgTooWeak
            ELSE IF tier = "Fair" THEN MsgAcceptable
            ELSE MsgGreat
    IN  <<lengthMsg>>
        \o (IF \E i \in 1..n : s[i] \in 97..122 THEN <<>> ELSE <<MsgAddLower>>)
        \o (IF \E i \in 1..n : s[i] \in 65..90 THEN <<>> ELSE <<MsgAddUpper>>)
        \o (IF \E i \in 1..n : s[i] \in digits THEN <<>> ELSE <<MsgAddDigits>>)
        \o (IF \E i \in 1..n : s[i] \in SpecialClass THEN <<>> ELSE <<MsgAddSpecial>>)
        \o (IF HasSequentialRun(s) THEN <<MsgSequential>> ELSE <<>>)
        \o (IF HasRepeatedRun(s) THEN <<MsgRepeated>> ELSE <<>>)
        \o <<closing>>

\* C12: for a non-empty password the feedback is, in this order, one length
\* message, one add-message per absent class (lowercase a-z, uppercase A-Z,
\* digit 0-9, special), the sequential message iff there is a sequential
\* run, the repeated message iff there is a repeated run, one closing remark
\* chosen by the tier.
C12_FeedbackList ==
    \A c \in Callers :
        (Returned(c) /\ truthy(password[c])) =>
            result[c].feedback =
                FeedbackOf(password[c].chars, result[c].strength, AsciiDigits)

\* The same list when the digit class is the one \d matches.
FeedbackListWithUnicodeDigits ==
    \A c \in Callers :
        (Returned(c) /\ truthy(password[c])) =>
            result[c].feedback =
                FeedbackOf(password[c].chars, result[c].strength, DigitClass)

\* C13: the returned score is at most 35, for the length sub-score is at
\* most 15, the variety sub-score at most 20 and the pattern sub-score at
\* most 0; so Very Strong (score 40 and above) is never returned and no
\* password gets 50.
C13_ScoreAtMost35 ==
    \A c \in Callers :
        /\ "length_score" \in DOMAIN frame[c] => frame[c].length_score <= 15
        /\ "char_variety_score" \in DOMAIN frame[c] =>
              frame[c].char_variety_score <= 20
        /\ "pattern_score" \in DOMAIN frame[c] => frame[c].pattern_score <= 0
        /\ Returned(c) =>
              /\ result[c].score <= 35
              /\ result[c].score # 50
              /\ result[c].strength # "Very Strong"

\* The three sub-scores are at their maxima and the result is Strong with
\* score 35.
C13_Witness ==
    \E c \in Callers :
        /\ Returned(c)
        /\ truthy(password[c])
        /\ frame[c].length_score = 15
        /\ frame[c].char_variety_score = 20
        /\ frame[c].pattern_score = 0
        /\ result[c].strength = "Strong"

\* C14: a password that matches a common password case-insensitively is
\* never returned with is_strong true, in whatever mix of upper and lower
\* case it is written.
C14_CommonNeverStrong ==
    \A c \in Callers :
        (Returned(c) /\ truthy(password[c]) /\ IsCommon(password[c].chars)) =>
            ~result[c].is_strong

\* A common password written with a character that is not lowercase has
\* returned, not strong.
C14_Witness ==
    \E c \in Callers :
        /\ Returned(c)
        /\ truthy(password[c])
        /\ IsCommon(password[c].chars)
        /\ lower(password[c].chars) # password[c].chars
        /\ ~result[c].is_strong

\* The feedback list has a message with the text of m.
HasMessage(feedback, m) ==
    \E i \in 1..Len(feedback) : feedback[i].text = m.text

\* C15: a result whose feedback has the "Password is too short" message has
\* is_strong false and does not close with "Great! This is a strong
\* password.".
C15_TooShortNotStrong ==
    \A c \in Callers :
        (Returned(c) /\ HasMessage(result[c].feedback, MsgTooShort(0))) =>
            /\ ~result[c].is_strong
            /\ ~HasMessage(result[c].feedback, MsgGreat)

\* No thread is running: each one is not started or has finished.
Quiescent == \A t \in Callers : pc[t] \in { "unstarted", "finished" }

\* What update_display shows for the result r.
DisplayOfResult(r) ==
    Display(r.strength, <<r.score>>, r.score,
            [i \in 1..Len(r.feedback) |-> Bullet(r.feedback[i])])

\* The display for the content f of the password field.
DisplayFor(f) ==
    IF f = <<>> THEN ClearedDisplay
    ELSE DisplayOfResult(check_password(InitialCommonPasswords, Str(f)))

\* C16: when the user has stopped editing and all started threads have
\* finished, the display shows the result for the content of the password
\* field: no thread of an earlier change has overwritten it, and strength,
\* score and feedback come from that one result.
C16_DisplayShowsFinalField ==
    Quiescent => display = DisplayFor(field)

====
